---- MODULE Spec2Model ----
(***************************************************************************)
(* Model of edl-composer (src/index.js): the EDL object built from a       *)
(* sequence, its body() loop over the events, and the EDLline formatter.   *)
(*                                                                         *)
(* Text is modelled exactly: a string is a sequence of one-character       *)
(* strings, and a newline-terminated text is the sequence of its lines     *)
(* (every piece the code concatenates ends with '\n', so each rendered     *)
(* piece is a whole number of lines).  Times are held in hundredths of a   *)
(* second, the resolution timecodeToSeconds rounds to.                     *)
(***************************************************************************)
EXTENDS Integers, Sequences, FiniteSets, TLC

VARIABLES config, counter, pc, entry, j, startTimecode, edlBody, result, calls

vars == <<config, counter, pc, entry, j, startTimecode, edlBody, result, calls>>

(***************************************************************************)
(* Bounds of the model.                                                    *)
(***************************************************************************)
MaxEvents == 2
MaxCalls == 2

(***************************************************************************)
(* JavaScript values.  NaN is a reserved integer outside the range of      *)
(* every time of the model; arithmetic propagates it as JS does.           *)
(***************************************************************************)
NaN == 0 - 99999999

undefined == <<"undefined">>

Add(a, b) == IF a = NaN \/ b = NaN THEN NaN ELSE a + b

Sub(a, b) == IF a = NaN \/ b = NaN THEN NaN ELSE a - b

Has(e, f) == f \in DOMAIN e

\* property read of a number: a missing property is undefined, and every use
\* of these numbers is arithmetic, where undefined becomes NaN
NumField(e, f) == IF Has(e, f) THEN e[f] ELSE NaN

\* property read of a string
StrField(e, f) == IF Has(e, f) THEN e[f] ELSE undefined

(***************************************************************************)
(* Characters and strings.                                                 *)
(***************************************************************************)
LowerLetters == <<"a","b","c","d","e","f","g","h","i","j","k","l","m","n","o","p","q","r","s","t","u","v","w","x","y","z">>

UpperLetters == <<"A","B","C","D","E","F","G","H","I","J","K","L","M","N","O","P","Q","R","S","T","U","V","W","X","Y","Z">>

DigitChars == <<"0","1","2","3","4","5","6","7","8","9">>

IndexIn(c, s) == IF \E i \in 1..Len(s) : s[i] = c
                 THEN CHOOSE i \in 1..Len(s) : s[i] = c
                 ELSE 0

toUpperCaseChar(c) == IF IndexIn(c, LowerLetters) > 0
                      THEN UpperLetters[IndexIn(c, LowerLetters)]
                      ELSE c

toLowerCaseChar(c) == IF IndexIn(c, UpperLetters) > 0
                      THEN LowerLetters[IndexIn(c, UpperLetters)]
                      ELSE c

toUpperCase(s) == [i \in 1..Len(s) |-> toUpperCaseChar(s[i])]

toLocaleLowerCase(s) == [i \in 1..Len(s) |-> toLowerCaseChar(s[i])]

\* s.replace(/ /g, "")
IsNotSpace(c) == c # " "

replaceSpaces(s) == SelectSeq(s, IsNotSpace)

\* s.slice(0, n)
slice0(s, n) == SubSeq(s, 1, IF Len(s) < n THEN Len(s) ELSE n)

\* Number.prototype.toString for an integer
RECURSIVE natToString(_)
natToString(n) == IF n < 10 THEN <<DigitChars[n + 1]>>
                  ELSE natToString(n \div 10) \o <<DigitChars[(n % 10) + 1]>>

toString(n) == IF n = NaN THEN <<"N","a","N">>
               ELSE IF n < 0 THEN <<"-">> \o natToString(0 - n)
               ELSE natToString(n)

\* parseInt of a string of decimal digits; NaN when it does not start with one
RECURSIVE parseDigits(_, _)
parseDigits(s, acc) == IF s = <<>> \/ IndexIn(Head(s), DigitChars) = 0 THEN acc
                       ELSE parseDigits(Tail(s), 10 * acc + IndexIn(Head(s), DigitChars) - 1)

parseInt(s) == IF s = <<>> \/ IndexIn(Head(s), DigitChars) = 0 THEN NaN
               ELSE parseDigits(s, 0)

\* s.split(sep) for a one-character separator
RECURSIVE split(_, _)
split(s, sep) ==
  IF \A i \in 1..Len(s) : s[i] # sep THEN <<s>>
  ELSE LET k == CHOOSE i \in 1..Len(s) : s[i] = sep /\ \A m \in 1..(i - 1) : s[m] # sep
       IN  <<SubSeq(s, 1, k - 1)>> \o split(SubSeq(s, k + 1, Len(s)), sep)

(***************************************************************************)
(* path.extname (Node, posix) on a bare file name: the text from the last  *)
(* '.' on, empty when there is no '.', when the last '.' is the first      *)
(* character, or when the name is "..".                                    *)
(***************************************************************************)
extname(p) ==
  LET dots == {i \in 1..Len(p) : p[i] = "."}
      startDot == CHOOSE i \in dots : \A m \in dots : m <= i
  IN  IF dots = {} THEN <<>>
      ELSE IF startDot = 1 THEN <<>>
      ELSE IF p = <<".",".">> THEN <<>>
      ELSE SubSeq(p, startDot, Len(p))

(***************************************************************************)
(* @pietrop/timecode-converter, imported at src/index.js:78-82.            *)
(***************************************************************************)
\* integer division and remainder truncating towards zero, as on JS numbers
\* followed by parseInt
TruncDiv(a, b) == IF a >= 0 THEN a \div b ELSE 0 - ((0 - a) \div b)

TruncRem(a, b) == a - b * TruncDiv(a, b)

padZero(n) == IF n < 10 THEN <<"0">> \o toString(n) ELSE toString(n)

secondsToTimecode(seconds, fps) ==
  IF seconds = NaN THEN <<"N","a","N",":","N","a","N",":","N","a","N",":","N","a","N">>
  ELSE IF seconds = 0 THEN <<"0","0",":","0","0",":","0","0",":","0","0">>
  ELSE LET totalFrames == (fps * seconds) \div 100
           wholeSeconds == totalFrames \div fps
           frames == totalFrames - wholeSeconds * fps
       IN  padZero(TruncRem(TruncDiv(wholeSeconds, 3600), 60)) \o <<":">>
             \o padZero(TruncRem(TruncDiv(wholeSeconds, 60), 60)) \o <<":">>
             \o padZero(TruncRem(wholeSeconds, 60)) \o <<":">>
             \o padZero(frames)

timecodeToSeconds(tc, fps) ==
  LET s == split(tc, ":")
      part(i) == IF i <= Len(s) THEN parseInt(s[i]) ELSE NaN
  IN  IF \E i \in 1..4 : part(i) = NaN THEN NaN
      ELSE LET frames == part(4) + part(3) * fps + part(2) * fps * 60
                           + part(1) * fps * 3600
           IN  (frames * 200 + fps) \div (2 * fps)

(***************************************************************************)
(* EDLline: the per-event formatter.                                       *)
(***************************************************************************)
\* the frame rate the constructor resolves (an event's fps is a record
\* [type |-> "number", value |-> n] or [type |-> "string"]; toFixed(2) of an
\* integral rate is the same rate)
lineFps(event) ==
  IF Has(event, "fps") /\ (event.fps.type = "string" \/ event.fps.value # 0)
  THEN IF event.fps.type = "string" THEN 25 ELSE event.fps.value
  ELSE 25

lineOffset(event) ==
  IF StrField(event, "offset") # <<"N","A">>
  THEN IF Has(event, "offset") /\ event.offset # <<>>
       THEN timecodeToSeconds(event.offset, lineFps(event))
       ELSE 0
  ELSE 0

EDLline(event, tapeIn) ==
  [fps       |-> lineFps(event),
   offset    |-> lineOffset(event),
   startTime |-> NumField(event, "startTime"),
   endTime   |-> NumField(event, "endTime"),
   reelName  |-> StrField(event, "reelName"),
   clipName  |-> StrField(event, "clipName"),
   tapeIn    |-> tapeIn]

\* n(): increments the shared counter and returns it zero-padded to width 3
n(c) ==
  LET next == c + 1
      str == toString(next)
  IN  [counter |-> next,
       str |-> IF Len(str) = 1 THEN <<"0","0">> \o str
               ELSE IF Len(str) = 2 THEN <<"0">> \o str
               ELSE str]

clipInPoint(line) == line.startTime

clipOutPoint(line) == line.endTime

\* slip: the name is cut to 7 characters before its spaces are removed
reelName7digit_sliceFirst(line) ==
  toUpperCase(replaceSpaces(slice0(line.reelName, 7)))

reelName7digit(line) ==
  toUpperCase(slice0(replaceSpaces(line.reelName), 7))

\* slip: the end point is not reduced by the start point
tapeOut_noStart(line) == Add(line.tapeIn, clipOutPoint(line))

\* slip: the duration is taken as start minus end
tapeOut_reversed(line) == Add(line.tapeIn, Sub(clipInPoint(line), clipOutPoint(line)))

\* slip: the camera offset is carried into the master timeline
tapeOut_withOffset(line) ==
  Add(line.tapeIn, Sub(Add(clipOutPoint(line), line.offset), clipInPoint(line)))

tapeOut(line) == Add(line.tapeIn, Sub(clipOutPoint(line), clipInPoint(line)))

\* the four timecodes every record row ends with
timecodes(line) ==
  secondsToTimecode(Add(clipInPoint(line), line.offset), line.fps) \o <<" ">>
    \o secondsToTimecode(Add(clipOutPoint(line), line.offset), line.fps) \o <<" ">>
    \o secondsToTimecode(line.tapeIn, line.fps) \o <<" ">>
    \o secondsToTimecode(tapeOut(line), line.fps)

clipNameLine(line) == <<"*"," ","F","R","O","M"," ","C","L","I","P"," ","N","A","M","E",":"," ">> \o line.clipName

audioLevelLine(line, channel) ==
  <<"*"," ","A","U","D","I","O"," ","L","E","V","E","L"," ","A","T"," ">>
    \o secondsToTimecode(Add(clipInPoint(line), line.offset), line.fps)
    \o <<" ","I","S"," ","-","8",".","9","8"," ","D","B"," "," ","(","R","E","E","L"," ","A","X"," ">> \o channel \o <<")">>

\* slip: the reel test also guards against a missing reelName, so that the
\* record is rendered as a reel-less one instead of failing
compose_noThrow(line, c) ==
  LET lineNumber == n(c)
  IN  IF line.reelName # undefined /\ line.reelName # <<"N","A">>
      THEN [threw |-> FALSE, counter |-> lineNumber.counter,
            res |-> << lineNumber.str \o <<" "," "," ">> \o reelName7digit(line)
                         \o <<" "," ","A","A","/","V"," "," ","C"," "," ">> \o timecodes(line),
                       clipNameLine(line),
                       <<"F","I","N","A","L"," ","C","U","T"," ","P","R","O"," ","R","E","E","L",":"," ">> \o line.reelName
                         \o <<" ","R","E","P","L","A","C","E","D"," ","B","Y",":"," ">> \o reelName7digit(line),
                       <<>> >>]
      ELSE [threw |-> FALSE, counter |-> lineNumber.counter,
            res |-> << lineNumber.str \o <<" "," "," ">> \o <<" ","A","X"," "," ","A","A","/","V"," "," ","C"," "," ">>
                         \o timecodes(line),
                       clipNameLine(line),
                       <<>> >>]

\* compose(): one standard record.  [threw, counter, res]; reelName7digit
\* throws a TypeError on an undefined reelName, after n() has run.
compose(line, c) ==
  LET lineNumber == n(c)
  IN  IF line.reelName = undefined
      THEN [threw |-> TRUE, counter |-> lineNumber.counter, res |-> <<>>]
      ELSE IF line.reelName # <<"N","A">>
      THEN [threw |-> FALSE, counter |-> lineNumber.counter,
            res |-> << lineNumber.str \o <<" "," "," ">> \o reelName7digit(line)
                         \o <<" "," ","A","A","/","V"," "," ","C"," "," ">> \o timecodes(line),
                       clipNameLine(line),
                       <<"F","I","N","A","L"," ","C","U","T"," ","P","R","O"," ","R","E","E","L",":"," ">> \o line.reelName
                         \o <<" ","R","E","P","L","A","C","E","D"," ","B","Y",":"," ">> \o reelName7digit(line),
                       <<>> >>]
      ELSE [threw |-> FALSE, counter |-> lineNumber.counter,
            res |-> << lineNumber.str \o <<" "," "," ">> \o <<" ","A","X"," "," ","A","A","/","V"," "," ","C"," "," ">>
                         \o timecodes(line),
                       clipNameLine(line),
                       <<>> >>]

\* slip: the record number is taken once, as compose() does, and reused for
\* the three records
composeMXFline_oneNumber(line, c) ==
  LET n1 == n(c)
  IN  [threw |-> FALSE, counter |-> n1.counter,
       res |-> << n1.str \o <<" "," "," ">> \o <<" ","A","X"," "," ","V"," "," ","C"," "," ">> \o timecodes(line),
                  clipNameLine(line),
                  <<>>,
                  n1.str \o <<" "," "," ">> \o <<" ","A","X"," "," ","A","A"," "," ","C"," "," ">> \o timecodes(line),
                  clipNameLine(line),
                  audioLevelLine(line, <<"A","1">>),
                  audioLevelLine(line, <<"A","2">>),
                  <<>>,
                  n1.str \o <<" "," ","A","X"," "," "," "," "," "," "," ","N","O","N","E"," "," ","C"," "," "," "," "," "," "," "," ">> \o timecodes(line),
                  clipNameLine(line),
                  audioLevelLine(line, <<"A","3">>),
                  audioLevelLine(line, <<"A","4">>),
                  <<"A","U","D"," "," ","3"," "," "," "," ","4">>,
                  <<>> >>]

\* composeMXFline(): three records, video and two audio tracks
composeMXFline(line, c) ==
  LET n1 == n(c)
      n2 == n(n1.counter)
      n3 == n(n2.counter)
  IN  [threw |-> FALSE, counter |-> n3.counter,
       res |-> << n1.str \o <<" "," "," ">> \o <<" ","A","X"," "," ","V"," "," ","C"," "," ">> \o timecodes(line),
                  clipNameLine(line),
                  <<>>,
                  n2.str \o <<" "," "," ">> \o <<" ","A","X"," "," ","A","A"," "," ","C"," "," ">> \o timecodes(line),
                  clipNameLine(line),
                  audioLevelLine(line, <<"A","1">>),
                  audioLevelLine(line, <<"A","2">>),
                  <<>>,
                  n3.str \o <<" "," ","A","X"," "," "," "," "," "," "," ","N","O","N","E"," "," ","C"," "," "," "," "," "," "," "," ">> \o timecodes(line),
                  clipNameLine(line),
                  audioLevelLine(line, <<"A","3">>),
                  audioLevelLine(line, <<"A","4">>),
                  <<"A","U","D"," "," ","3"," "," "," "," ","4">>,
                  <<>> >>]

(***************************************************************************)
(* EDL: head, body, compose.                                               *)
(***************************************************************************)
head(cfg) == << <<"T","I","T","L","E",":"," ">> \o cfg.title, <<"F","C","M",":"," ","N","O","N","-","D","R","O","P"," ","F","R","A","M","E">>, <<>> >>

\* slip: join() with its default separator ','
RECURSIVE join_comma(_)
join_comma(parts) ==
  IF parts = <<>> THEN <<>>
  ELSE IF Len(parts) = 1 THEN Head(parts)
  ELSE LET rest == join_comma(Tail(parts))
       IN  Head(parts) \o << <<",">> \o Head(rest) >> \o Tail(rest)

\* Array.prototype.join('') of the rendered events
RECURSIVE join(_)
join(parts) == IF parts = <<>> THEN <<>> ELSE Head(parts) \o join(Tail(parts))

\* slip: the extension is compared without lowering the case
isMXF_caseSensitive(event) == extname(event.clipName) = <<".","m","x","f">>

\* the variant dispatch of body(); throws a TypeError on an undefined clipName
isMXF(event) == extname(toLocaleLowerCase(event.clipName)) = <<".","m","x","f">>

\* one iteration of the for loop of body()
iteration(event, tapeIn, c) ==
  LET edlLine == EDLline(event, tapeIn)
      out == IF ~Has(event, "clipName")
             THEN [threw |-> TRUE, counter |-> c, res |-> <<>>]
             ELSE IF isMXF(event) THEN composeMXFline(edlLine, c)
             ELSE compose(edlLine, c)
  IN  [threw |-> out.threw, counter |-> out.counter, res |-> out.res,
       startTimecode |-> tapeOut(edlLine)]

(***************************************************************************)
(* Input sequences.                                                        *)
(***************************************************************************)
Without(e, f) == [x \in DOMAIN e \ {f} |-> e[x]]

\* the first event of the documented usage (src/index.js:21-28)
DemoEvent == [startTime |-> 1000, endTime |-> 2000, reelName |-> <<"S","o","m","e"," ","R","e","e","l"," ","N","a","m","e">>,
              clipName |-> <<"a",".","m","o","v">>, offset |-> <<"0","0",":","0","0",":","2","8",":","0","8">>]

MxfEvent == [startTime |-> 4500, endTime |-> 5500, reelName |-> <<"C","a","r","d"," ","2">>,
             clipName |-> <<"b",".","M","x","F">>]

Events ==
  { DemoEvent,
    [startTime |-> 4500, endTime |-> 5700, reelName |-> <<"N","A">>,
     clipName |-> <<"c",".","m","p","4">>, offset |-> <<"N","A">>],
    MxfEvent,
    [startTime |-> 300, endTime |-> 700, reelName |-> <<"N","A">>,
     clipName |-> <<"D",".","M","X","F">>, offset |-> <<"0","0",":","0","1",":","0","0",":","1","2">>,
     fps |-> [type |-> "number", value |-> 24]],
    \* endTime before startTime
    [startTime |-> 2000, endTime |-> 1000, reelName |-> <<"a","b"," ","1">>,
     clipName |-> <<"e",".","m","o","v">>],
    \* fps in the old "25p" notation, no extension
    [startTime |-> 0, endTime |-> 150, reelName |-> <<"r">>,
     clipName |-> <<"n","o","e","x","t">>, offset |-> <<"N","A">>, fps |-> [type |-> "string"]],
    \* a dot file: path.extname gives ''
    [startTime |-> 1000, endTime |-> 1000, reelName |-> <<"N","A">>,
     clipName |-> <<".","m","x","f">>],
    \* events that lack a required field
    Without(DemoEvent, "startTime"),
    Without(DemoEvent, "endTime"),
    Without(DemoEvent, "reelName"),
    Without(DemoEvent, "clipName"),
    Without(MxfEvent, "reelName"),
    Without(MxfEvent, "endTime") }

RECURSIVE SeqsUpTo(_, _)
SeqsUpTo(S, k) == IF k = 0 THEN {<<>>}
                  ELSE LET shorter == SeqsUpTo(S, k - 1)
                       IN  shorter \cup { Append(s, e) : s \in shorter, e \in S }

Configs == { [title |-> <<"D","e","m","o">>, events |-> es] : es \in SeqsUpTo(Events, MaxEvents) }

(***************************************************************************)
(* The state machine: new EDL(config), then calls of compose() and body(). *)
(***************************************************************************)
Init ==
  /\ config \in Configs
  /\ counter = 0
  /\ pc = "idle"
  /\ entry = "none"
  /\ j = 0
  /\ startTimecode = 0
  /\ edlBody = <<>>
  /\ result = <<>>
  /\ calls = 0

\* entering body(): startTimecode = 0, edlBody = [], j = 0
enterBody(how) ==
  /\ pc # "loop"
  /\ calls < MaxCalls
  /\ calls' = calls + 1
  /\ entry' = how
  /\ pc' = "loop"
  /\ j' = 0
  /\ startTimecode' = 0
  /\ edlBody' = <<>>
  /\ result' = <<>>
  /\ UNCHANGED <<config, counter>>

ComposeCall == enterBody("compose")

BodyCall == enterBody("body")

BodyStep ==
  /\ pc = "loop"
  /\ j < Len(config.events)
  /\ LET it == iteration(config.events[j + 1], startTimecode, counter)
     IN  /\ counter' = it.counter
         /\ startTimecode' = it.startTimecode
         /\ IF it.threw
            THEN /\ pc' = "threw"
                 /\ UNCHANGED <<j, edlBody>>
            ELSE /\ pc' = "loop"
                 /\ j' = j + 1
                 /\ edlBody' = Append(edlBody, it.res)
  /\ UNCHANGED <<config, entry, result, calls>>

Return ==
  /\ pc = "loop"
  /\ j = Len(config.events)
  /\ pc' = "returned"
  /\ result' = IF entry = "compose" THEN head(config) \o join(edlBody)
               ELSE join(edlBody)
  /\ UNCHANGED <<config, counter, entry, j, startTimecode, edlBody, calls>>

Next == ComposeCall \/ BodyCall \/ BodyStep \/ Return

Spec == Init /\ [][Next]_vars

(***************************************************************************)
(* Reading a rendered text back: rows, their columns, their numbers.       *)
(***************************************************************************)
DigitSet == { DigitChars[i] : i \in 1..Len(DigitChars) }

\* a record row is a line that starts with a digit
IsRow(l) == l # <<>> /\ l[1] \in DigitSet

Rows(text) == SelectSeq(text, IsRow)

\* the columns of a line: its maximal runs of non-space characters
RECURSIVE Words(_)
Words(l) ==
  IF l = <<>> THEN <<>>
  ELSE IF l[1] = " " THEN Words(Tail(l))
  ELSE LET stops == { i \in 1..Len(l) : l[i] = " " }
           k == IF stops = {} THEN Len(l) + 1
                ELSE CHOOSE i \in stops : \A m \in stops : i <= m
       IN  <<SubSeq(l, 1, k - 1)>> \o Words(SubSeq(l, k, Len(l)))

RECURSIVE DecValue(_)
DecValue(w) == IF w = <<>> THEN 0
               ELSE 10 * DecValue(SubSeq(w, 1, Len(w) - 1))
                      + (CHOOSE d \in 0..9 : DigitChars[d + 1] = w[Len(w)])

RecNo(row) == DecValue(Words(row)[1])

StartsWith(l, pre) == Len(l) >= Len(pre) /\ SubSeq(l, 1, Len(pre)) = pre

Contains(l, pat) ==
  \E i \in 1..(Len(l) - Len(pat) + 1) : SubSeq(l, i, i + Len(pat) - 1) = pat

RECURSIVE Flatten(_)
Flatten(texts) == IF Len(texts) = 0 THEN <<>>
                  ELSE Flatten(SubSeq(texts, 1, Len(texts) - 1)) \o texts[Len(texts)]

events == config.events

\* the events rendered so far in the running or finished body()
Rendered == 1..Len(edlBody)

HasMxfExtension(name) ==
  /\ Len(name) >= 5
  /\ name[Len(name) - 3] = "."
  /\ name[Len(name) - 2] \in {"m", "M"}
  /\ name[Len(name) - 1] \in {"x", "X"}
  /\ name[Len(name)] \in {"f", "F"}

IsStandard(k) == ~HasMxfExtension(events[k].clipName)

\* master in and out as the claims define them, from the event times alone
RECURSIVE MasterInOf(_, _)
MasterInOf(evs, k) ==
  IF k = 1 THEN 0
  ELSE Add(MasterInOf(evs, k - 1),
           Sub(NumField(evs[k - 1], "endTime"), NumField(evs[k - 1], "startTime")))

MasterOutOf(evs, k) ==
  Add(MasterInOf(evs, k), Sub(NumField(evs[k], "endTime"), NumField(evs[k], "startTime")))

NoOffsets(evs) == [i \in 1..Len(evs) |-> Without(evs[i], "offset")]

EffectiveOffset(e) ==
  IF ~Has(e, "offset") \/ e.offset = <<"N","A">> THEN 0
  ELSE timecodeToSeconds(e.offset, lineFps(e))

ValidTimes(e) == Has(e, "startTime") /\ Has(e, "endTime") /\ e.startTime <= e.endTime

RequiredFields == {"reelName", "clipName", "startTime", "endTime"}

(***************************************************************************)
(* C1: every compose() on a composer returns a document whose first record *)
(* is numbered 001, however many compose or body calls came before.        *)
(***************************************************************************)
C1_FirstRecordIs001 ==
  (pc = "returned" /\ entry = "compose" /\ Rows(result) # <<>>)
    => Words(Rows(result)[1])[1] = <<"0","0","1">>

(***************************************************************************)
(* C2: in one returned document the numbers of consecutive records differ  *)
(* by exactly 1, across event and variant boundaries.                      *)
(***************************************************************************)
C2_ConsecutiveNumbers ==
  pc = "returned"
    => \A i \in 1..(Len(Rows(result)) - 1) :
         RecNo(Rows(result)[i + 1]) = RecNo(Rows(result)[i]) + 1

C2_Witness ==
  /\ pc = "returned"
  /\ entry = "compose"
  /\ Len(events) = 2
  /\ IsStandard(1)
  /\ ~IsStandard(2)
  /\ Len(Rows(result)) = 4

(***************************************************************************)
(* C3: master-in of the first event is 0, master-in of event k+1 is        *)
(* master-out of event k, master-out of event k is its master-in plus      *)
(* (endTime_k - startTime_k); every row of an event (all three of an MXF   *)
(* event) shows that pair, and the cursor handed to the next event is the  *)
(* master-out.                                                             *)
(***************************************************************************)
C3_MasterChain ==
  /\ pc \in {"loop", "returned"}
       => startTimecode = MasterInOf(events, Len(edlBody) + 1)
  /\ \A k \in Rendered :
       \A i \in 1..Len(Rows(edlBody[k])) :
         LET w == Words(Rows(edlBody[k])[i])
         IN  /\ w[7] = secondsToTimecode(MasterInOf(events, k), lineFps(events[k]))
             /\ w[8] = secondsToTimecode(MasterOutOf(events, k), lineFps(events[k]))

C3_Witness ==
  /\ pc = "loop"
  /\ Len(edlBody) = 2
  /\ ~IsStandard(2)
  /\ ValidTimes(events[1])
  /\ ValidTimes(events[2])
  /\ startTimecode = (events[1].endTime - events[1].startTime)
                       + (events[2].endTime - events[2].startTime)
  /\ startTimecode > events[2].endTime - events[2].startTime

(***************************************************************************)
(* C4 as stated: for every event list, the master-in of each event is at   *)
(* least the master-in of the event before it.                             *)
(***************************************************************************)
C4_Original ==
  [][(pc = "loop" /\ pc' = "loop" /\ j' = j + 1 /\ j' < Len(events))
        => startTimecode' >= startTimecode]_vars

(***************************************************************************)
(* C4 amended: when every event up to k has numeric times with             *)
(* endTime >= startTime, the master-in of event k+1 is at least the        *)
(* master-in of event k.                                                   *)
(***************************************************************************)
C4_Amended ==
  [][(pc = "loop" /\ pc' = "loop" /\ j' = j + 1 /\ j' < Len(events)
        /\ \A i \in 1..j' : ValidTimes(events[i]))
        => startTimecode' >= startTimecode]_vars

C4_Witness ==
  /\ pc = "loop"
  /\ j = 1
  /\ Len(events) = 2
  /\ ValidTimes(events[1])
  /\ startTimecode > 0

(***************************************************************************)
(* C5: the offsets never reach the master timeline (master in/out are those*)
(* of the same list with every offset removed), and the source in/out      *)
(* shown are startTime + offset and endTime + offset, with offset 0 when   *)
(* it is "NA" or absent.                                                   *)
(***************************************************************************)
C5_OffsetOnlyOnSource ==
  /\ pc \in {"loop", "returned"}
       => startTimecode = MasterInOf(NoOffsets(events), Len(edlBody) + 1)
  /\ \A k \in Rendered :
       \A i \in 1..Len(Rows(edlBody[k])) :
         LET w == Words(Rows(edlBody[k])[i])
             e == events[k]
             fps == lineFps(e)
         IN  /\ w[5] = secondsToTimecode(
                         Add(NumField(e, "startTime"), EffectiveOffset(e)), fps)
             /\ w[6] = secondsToTimecode(
                         Add(NumField(e, "endTime"), EffectiveOffset(e)), fps)
             /\ w[7] = secondsToTimecode(MasterInOf(NoOffsets(events), k), fps)
             /\ w[8] = secondsToTimecode(MasterOutOf(NoOffsets(events), k), fps)

C5_Witness ==
  /\ pc = "returned"
  /\ Len(edlBody) = 2
  /\ Has(events[1], "offset") /\ events[1].offset # <<"N","A">>
  /\ EffectiveOffset(events[1]) > 0
  /\ ValidTimes(events[1])
  /\ Has(events[2], "offset") /\ events[2].offset = <<"N","A">>

(***************************************************************************)
(* C6: an event whose clipName has the extension .mxf in any letter case,  *)
(* whatever its reelName, gives exactly three consecutive records (V, AA,  *)
(* NONE), each with its own counter value, tape label AX, the same four    *)
(* timecodes and no REPLACED BY trailer; any other event gives exactly one *)
(* record.                                                                 *)
(***************************************************************************)
C6_MxfThreeRecords ==
  \A k \in Rendered :
    LET rows == Rows(edlBody[k])
    IN  IF HasMxfExtension(events[k].clipName)
        THEN /\ Len(rows) = 3
             /\ Words(rows[1])[3] = <<"V">>
             /\ Words(rows[2])[3] = <<"A","A">>
             /\ Words(rows[3])[3] = <<"N","O","N","E">>
             /\ RecNo(rows[2]) = RecNo(rows[1]) + 1
             /\ RecNo(rows[3]) = RecNo(rows[2]) + 1
             /\ \A i \in 1..3 :
                  /\ Words(rows[i])[2] = <<"A","X">>
                  /\ SubSeq(Words(rows[i]), 5, 8) = SubSeq(Words(rows[1]), 5, 8)
                  /\ Len(Words(rows[i])) = 8
             /\ \A i \in 1..Len(edlBody[k]) :
                  ~Contains(edlBody[k][i], <<"R","E","P","L","A","C","E","D"," ","B","Y">>)
        ELSE Len(rows) = 1

C6_Witness ==
  /\ Len(edlBody) = 2
  /\ events[1].clipName = <<"b",".","M","x","F">>
  /\ Has(events[1], "reelName")
  /\ events[1].reelName # <<"N","A">>
  /\ IsStandard(2)

(***************************************************************************)
(* C7: a standard record with reelName != "NA" has as tape label the first *)
(* 7 characters of the space-stripped, uppercased reelName and ends with   *)
(* the trailer FINAL CUT PRO REEL: <reelName> REPLACED BY: <tape label>;   *)
(* with reelName == "NA" the label is AX and there is no trailer.          *)
(***************************************************************************)
TapeLabel(name) ==
  LET stripped == SelectSeq(name, IsNotSpace)
  IN  toUpperCase(SubSeq(stripped, 1, IF Len(stripped) > 7 THEN 7 ELSE Len(stripped)))

C7_TapeLabel ==
  \A k \in Rendered :
    IsStandard(k) =>
      LET text == edlBody[k]
          row == Rows(text)[1]
          name == events[k].reelName
      IN  IF name # <<"N","A">>
          THEN /\ Words(row)[2] = TapeLabel(name)
               /\ Len(TapeLabel(name)) <= 7
               /\ text[Len(text) - 1] =
                    <<"F","I","N","A","L"," ","C","U","T"," ","P","R","O"," ","R","E","E","L",":"," ">> \o name \o <<" ","R","E","P","L","A","C","E","D"," ","B","Y",":"," ">>
                      \o TapeLabel(name)
               /\ text[Len(text)] = <<>>
          ELSE /\ Words(row)[2] = <<"A","X">>
               /\ \A i \in 1..Len(text) : ~Contains(text[i], <<"R","E","P","L","A","C","E","D"," ","B","Y">>)

C7_Witness ==
  /\ Len(edlBody) = 2
  /\ IsStandard(1)
  /\ events[1].reelName = <<"S","o","m","e"," ","R","e","e","l"," ","N","a","m","e">>
  /\ Words(Rows(edlBody[1])[1])[2] = <<"S","O","M","E","R","E","E">>
  /\ IsStandard(2)
  /\ events[2].reelName = <<"N","A">>

(***************************************************************************)
(* C8: a standard record with reelName != "NA" is exactly the record row,  *)
(* the * FROM CLIP NAME line, a * COMMENT: line, the FINAL CUT PRO REEL    *)
(* trailer and a blank line; with reelName == "NA" it is the row, the      *)
(* clip-name line and a blank line.                                        *)
(***************************************************************************)
C8_RecordLines ==
  \A k \in Rendered :
    IsStandard(k) =>
      LET text == edlBody[k]
          name == events[k].reelName
      IN  IF name # <<"N","A">>
          THEN /\ Len(text) = 5
               /\ IsRow(text[1])
               /\ text[2] = <<"*"," ","F","R","O","M"," ","C","L","I","P"," ","N","A","M","E",":"," ">> \o events[k].clipName
               /\ StartsWith(text[3], <<"*"," ","C","O","M","M","E","N","T",":">>)
               /\ StartsWith(text[4], <<"F","I","N","A","L"," ","C","U","T"," ","P","R","O"," ","R","E","E","L",":"," ">>)
               /\ Contains(text[4], <<" ","R","E","P","L","A","C","E","D"," ","B","Y",":"," ">>)
               /\ text[5] = <<>>
          ELSE /\ Len(text) = 3
               /\ IsRow(text[1])
               /\ text[2] = <<"*"," ","F","R","O","M"," ","C","L","I","P"," ","N","A","M","E",":"," ">> \o events[k].clipName
               /\ text[3] = <<>>

(***************************************************************************)
(* C9: the string compose returns is the header TITLE: <title>,            *)
(* FCM: NON-DROP FRAME, blank line, followed by the records of the events  *)
(* in input order, with nothing between or after them; for no events it is *)
(* the header alone.                                                       *)
(***************************************************************************)
C9_HeaderThenRecords ==
  (pc = "returned" /\ entry = "compose") =>
    /\ Len(edlBody) = Len(events)
    /\ result = << <<"T","I","T","L","E",":"," ">> \o config.title, <<"F","C","M",":"," ","N","O","N","-","D","R","O","P"," ","F","R","A","M","E">>, <<>> >>
                  \o Flatten(edlBody)
    /\ \A k \in Rendered :
         /\ IsRow(edlBody[k][1])
         /\ edlBody[k][2] = <<"*"," ","F","R","O","M"," ","C","L","I","P"," ","N","A","M","E",":"," ">> \o events[k].clipName
         /\ edlBody[k][Len(edlBody[k])] = <<>>
    /\ events = <<>> => Len(result) = 3

C9_Witness ==
  /\ pc = "returned"
  /\ entry = "compose"
  /\ Len(events) = 2
  /\ events[1].clipName # events[2].clipName
  /\ Len(result) > 3 + Len(edlBody[1])

(***************************************************************************)
(* C10 as stated: if any event lacks reelName, clipName, startTime or      *)
(* endTime, compose raises and returns no document.                        *)
(***************************************************************************)
C10_Original ==
  (pc = "returned" /\ entry = "compose")
    => \A k \in 1..Len(events) : RequiredFields \subseteq DOMAIN events[k]

(***************************************************************************)
(* C10 amended: compose raises and returns no document when an event lacks *)
(* clipName, or lacks reelName while its clipName is not .mxf, and it      *)
(* raises for no other missing field: a missing reelName on an MXF event   *)
(* and a missing startTime or endTime pass through the composer.           *)
(***************************************************************************)
Raises(e) ==
  \/ ~Has(e, "clipName")
  \/ ~HasMxfExtension(e.clipName) /\ ~Has(e, "reelName")

C10_Amended ==
  /\ pc = "returned" => \A k \in 1..Len(events) : ~Raises(events[k])
  /\ pc = "threw" => /\ Raises(events[j + 1])
                     /\ \A k \in 1..j : ~Raises(events[k])
                     /\ result = <<>>

C10_Witness ==
  /\ pc = "threw"
  /\ entry = "compose"
  /\ j = 1
  /\ Has(events[2], "clipName")
  /\ ~Has(events[2], "reelName")

====
